---- MODULE Spec2Model ----
(***************************************************************************)
(* A model of pydantic/main.py: the validation pass validate_model, the    *)
(* entry points that lead into it (parse_obj, parse_raw, parse_file), the  *)
(* guarded mutation and copy of BaseModel instances, and the field table   *)
(* built by MetaModel.__new__.                                             *)
(*                                                                         *)
(* Four state machines share the module:                                   *)
(*   Spec       one validate_model pass (called directly or via __init__)  *)
(*   SpecParse  parse_obj / parse_raw / parse_file, then the same pass     *)
(*   SpecInst   instances: __setattr__, copy, construct                    *)
(*   SpecMeta   a class body and MetaModel.__new__ building its __fields__  *)
(***************************************************************************)
EXTENDS Integers, Sequences, FiniteSets, TLC

(***************************************************************************)
(* Bounds of the model.                                                    *)
(***************************************************************************)
\* most fields in a model's field table during a validation pass
MaxFields == 2

\* most instances alive at once: the first one and its copies
MaxInst == 2

\* most declarations in a class body
MaxDecl == 2

(***************************************************************************)
(* Keys: the strings used as field names, aliases and input keys, in       *)
(* ascending (sorted()) order.                                             *)
(***************************************************************************)
Keys == <<"a", "b", "c">>

KeySet == {Keys[i] : i \in 1..Len(Keys)}

\* position of a key in ascending string order
Rank(k) == CHOOSE i \in 1..Len(Keys) : Keys[i] = k

\* sorted(S) for a set of keys
RECURSIVE Sorted(_)
Sorted(S) ==
    IF S = {} THEN <<>>
    ELSE LET m == CHOOSE x \in S : \A y \in S : Rank(x) <= Rank(y)
         IN  <<m>> \o Sorted(S \ {m})

(***************************************************************************)
(* Python dicts as functions on a finite set of keys.                      *)
(***************************************************************************)
EmptyDict == [k \in {} |-> "None"]

\* d[k] = v
Put(d, k, v) == [x \in (DOMAIN d) \cup {k} |-> IF x = k THEN v ELSE d[x]]

\* the sentinel object main.py uses for "key not in input"
_missing == "_missing"

\* d.get(k, _missing)
Get(d, k) == IF k \in DOMAIN d THEN d[k] ELSE _missing

\* the dict without the keys of S
Without(d, S) == [x \in (DOMAIN d) \ S |-> d[x]]

(***************************************************************************)
(* Raw input values: one the field coercion accepts and one it rejects.    *)
(***************************************************************************)
RawValues == {"good", "bad"}

\* every input mapping: each key absent or bound to a raw value
Inputs == UNION {[S -> RawValues] : S \in SUBSET KeySet}

(***************************************************************************)
(* BaseConfig: the settings the modelled code reads.                       *)
(***************************************************************************)
Extra == {"allow", "ignore", "forbid"}

Configs ==
    [validate_all : BOOLEAN, extra : Extra, allow_population_by_alias : BOOLEAN]

(***************************************************************************)
(* Fields.  The i-th field of a table is named Keys[i]; its alias is its   *)
(* name or the cyclically preceding key, so that aliases can be free keys, *)
(* other fields' names, or shared by two fields, and table order can       *)
(* differ from the sorted order of the aliases.                            *)
(***************************************************************************)
PrevKey(k) == Keys[IF Rank(k) = 1 THEN Len(Keys) ELSE Rank(k) - 1]

\* Field.infer(value=...): required, default None; otherwise the value is the default
FieldsNamed(n) ==
    { [name |-> n, alias |-> al, required |-> rq, validate_always |-> va,
       type_ |-> ty, default |-> IF rq THEN "None" ELSE "dflt"] :
         al \in {n, PrevKey(n)}, va \in BOOLEAN,
         rq \in BOOLEAN, ty \in {"int", "Any"} }

\* a field whose annotation is still an unresolved ForwardRef
ForwardRefField(n) ==
    [name |-> n, alias |-> n, required |-> TRUE, validate_always |-> FALSE,
     type_ |-> "ForwardRef", default |-> "None"]

\* Field.alt_alias: the alias differs from the name
alt_alias(f) == f.name # f.alias

\* deepcopy of an immutable default is an equal value
deepcopy(v) == v

(***************************************************************************)
(* ErrorWrapper(exc, loc)                                                  *)
(***************************************************************************)
ErrorWrapper(exc, loc) == [exc |-> exc, loc |-> loc]

(***************************************************************************)
(* The field coercion collaborator Field.validate(v, values, loc, cls):    *)
(* returns (value, None), (v, ErrorWrapper) or (v, [ErrorWrapper, ...]).   *)
(* An "int" field rejects None and the bad raw value with one error; an    *)
(* "Any" field has no type validator, accepts None, and its class          *)
(* validators reject the bad raw value with a list of errors.              *)
(***************************************************************************)
FieldValidate(f, v, values, loc) ==
    CASE v = "bad" /\ f.type_ = "int" ->
            [value |-> v, kind |-> "wrapper", errs |-> <<ErrorWrapper("coercion", loc)>>]
      [] v = "bad" ->
            [value |-> v, kind |-> "list",
             errs |-> <<ErrorWrapper("coercion", loc), ErrorWrapper("coercion2", loc)>>]
      [] v = "None" /\ f.type_ = "int" ->
            [value |-> v, kind |-> "wrapper", errs |-> <<ErrorWrapper("coercion", loc)>>]
      [] v = "None" -> [value |-> "None", kind |-> "none", errs |-> <<>>]
      [] v = "good" -> [value |-> "GOOD", kind |-> "none", errs |-> <<>>]
      [] OTHER      -> [value |-> "DFLT", kind |-> "none", errs |-> <<>>]


(***************************************************************************)
(* State.                                                                  *)
(***************************************************************************)
VARIABLES
    \* ---- one validation pass ----
    config,      \* model.__config__
    input_data,  \* the keyed input of the pass
    raise_exc,   \* validate_model's raise_exc argument
    entry,       \* how the pass was entered
    pc,          \* "entry", "loop", "done", or "failed" (raised before the pass)
    fields,      \* model.__fields__ as far as the loop has read it
    values,      \* validate_model's values
    errors,      \* validate_model's errors
    names_used,  \* validate_model's names_used
    status,      \* per field read: "coerced", "defaulted", "missing" or "failed"
    calls,       \* every call of field.validate made so far: field, value, context
    outcome,     \* what the call returned or raised
    decode,      \* what load_str_bytes / load_file did: "none" while not called
    \* ---- instances ----
    iconfig,     \* __config__ of the instances' model
    dicts,       \* the heap of dict objects: identity -> mapping
    inst,        \* instance -> identity of its __values__ dict
    last,        \* the last operation on an instance and its result
    \* ---- class creation ----
    build        \* the class statement being executed: body, bases, __fields__

passVars == <<config, input_data, raise_exc, entry, pc, fields, values, errors, names_used,
              status, calls, outcome, decode>>
instVars == <<iconfig, dicts, inst, last>>
metaVars == <<build>>
vars == <<passVars, instVars, metaVars>>

(***************************************************************************)
(* validate_model, lines 476-480: the lookup of a field's raw value.       *)
(***************************************************************************)
Lookup(cfg, input, f) ==
    LET byAlias == Get(input, f.alias)
    IN  IF byAlias = _missing /\ cfg.allow_population_by_alias /\ alt_alias(f)
        THEN [value |-> Get(input, f.name), using_name |-> TRUE]
        ELSE [value |-> byAlias, using_name |-> FALSE]

\* a lookup that forgets a value was found under the field's name
UsedKey_AlwaysAlias(f, using_name) == f.alias

\* line 492: the input key a found value consumed
UsedKey(f, using_name) == IF using_name THEN f.name ELSE f.alias

\* lines 482-490: what happens to a field whose value is missing
MissingBranch(cfg, f) ==
    IF cfg.validate_all \/ f.validate_always THEN "validate_default"
    ELSE IF f.required THEN "missing_error"
    ELSE "store_default"

\* a loop that stores the value of a failed coercion as well
StoreResult_KeepFailed(st, f, r) ==
    [st EXCEPT !.values = Put(st.values, f.name, r.value),
               !.errors = st.errors \o r.errs,
               !.status = Append(st.status, IF r.kind = "none" THEN "coerced" ELSE "failed")]

\* lines 495-500: the result of field.validate goes to errors or to values
StoreResult(st, f, r) ==
    IF r.kind = "none"
    THEN [st EXCEPT !.values = Put(st.values, f.name, r.value),
                    !.status = Append(st.status, "coerced")]
    ELSE [st EXCEPT !.errors = st.errors \o r.errs,
                    !.status = Append(st.status, "failed")]

\* line 494: the call of field.validate with the values resolved so far
CallValidate(st, f, v) ==
    StoreResult(
        [st EXCEPT !.calls = Append(st.calls,
                      [field |-> f.name, idx |-> Len(st.status) + 1,
                       value |-> v, values |-> st.values])],
        f, FieldValidate(f, v, st.values, f.alias))

\* the state of the locals before the loop, lines 463-465
PassStart ==
    [values |-> EmptyDict, errors |-> <<>>, names_used |-> {}, status |-> <<>>,
     calls |-> <<>>]

\* one iteration of the loop over __fields__, lines 476-500
FieldStep(cfg, input, st, f) ==
    LET lk == Lookup(cfg, input, f)
        check_extra == cfg.extra # "ignore"
    IN  IF lk.value = _missing
        THEN CASE MissingBranch(cfg, f) = "validate_default" ->
                    CallValidate(st, f, deepcopy(f.default))
               [] MissingBranch(cfg, f) = "missing_error" ->
                    [st EXCEPT !.errors = Append(st.errors, ErrorWrapper("MissingError", f.alias)),
                               !.status = Append(st.status, "missing")]
               [] OTHER ->
                    [st EXCEPT !.values = Put(st.values, f.name, deepcopy(f.default)),
                               !.status = Append(st.status, "defaulted")]
        ELSE CallValidate(
                 IF check_extra
                 THEN [st EXCEPT !.names_used = st.names_used \cup {UsedKey(f, lk.using_name)}]
                 ELSE st,
                 f, lk.value)

\* line 503: the input keys no field consumed
ExtraKeys(input, used) == (DOMAIN input) \ used

\* lines 506-507: under "allow" every unconsumed key's raw value is copied
RECURSIVE CopyExtra(_, _, _)
CopyExtra(vals, input, ks) ==
    IF ks = <<>> THEN vals
    ELSE CopyExtra(Put(vals, Head(ks), input[Head(ks)]), input, Tail(ks))

\* lines 509-510: under "forbid" one ExtraError per unconsumed key, sorted
RECURSIVE ExtraErrors(_)
ExtraErrors(ks) ==
    IF ks = <<>> THEN <<>>
    ELSE <<ErrorWrapper("ExtraError", Head(ks))>> \o ExtraErrors(Tail(ks))

\* lines 502-510: the extra policy, applied after the loop
ExtraStep(cfg, input, st) ==
    LET extra == ExtraKeys(input, st.names_used)
    IN  IF cfg.extra = "ignore" \/ extra = {} THEN st
        ELSE IF cfg.extra = "allow"
        THEN [st EXCEPT !.values = CopyExtra(st.values, input, Sorted(extra))]
        ELSE [st EXCEPT !.errors = st.errors \o ExtraErrors(Sorted(extra))]

\* an ending that raises on errors whatever raise_exc is
PassResult_AlwaysRaise(raise, errs) ==
    IF errs # <<>>
    THEN [kind |-> "raised", exc |-> "ValidationError", pair |-> FALSE, error |-> "None"]
    ELSE [kind |-> "returned", exc |-> "none", pair |-> ~raise, error |-> "None"]

\* lines 512-517: return the pair, return the values, or raise
PassResult(raise, errs) ==
    IF ~raise
    THEN [kind |-> "returned", exc |-> "none", pair |-> TRUE,
          error |-> IF errs # <<>> THEN "ValidationError" ELSE "None"]
    ELSE IF errs # <<>>
    THEN [kind |-> "raised", exc |-> "ValidationError", pair |-> FALSE, error |-> "None"]
    ELSE [kind |-> "returned", exc |-> "none", pair |-> FALSE, error |-> "None"]

\* lines 470-474: an unresolved ForwardRef raises, whatever raise_exc is
ForwardRefResult ==
    [kind |-> "raised", exc |-> "ConfigError", pair |-> FALSE, error |-> "None"]

\* the whole loop over a field table without a ForwardRef, as one function
RECURSIVE RunFields(_, _, _, _)
RunFields(cfg, input, st, fs) ==
    IF fs = <<>> THEN st
    ELSE RunFields(cfg, input, FieldStep(cfg, input, st, Head(fs)), Tail(fs))

\* validate_model on a field table without a ForwardRef: the locals at line 512
RunPass(cfg, input, fs) == ExtraStep(cfg, input, RunFields(cfg, input, PassStart, fs))

Running == [kind |-> "running", exc |-> "none", pair |-> FALSE, error |-> "None"]

\* the locals of the pass in progress, as one record
Locals ==
    [values |-> values, errors |-> errors, names_used |-> names_used,
     status |-> status, calls |-> calls]

SetLocals(st) ==
    /\ values' = st.values
    /\ errors' = st.errors
    /\ names_used' = st.names_used
    /\ status' = st.status
    /\ calls' = st.calls

(***************************************************************************)
(* Actions of a validation pass.                                           *)
(***************************************************************************)
\* The loop reads the next field of __fields__ and handles it.  The table does
\* not change during a pass and the loop reads each field once, so the model
\* lets the table appear field by field, as the loop reaches it.
LoopField ==
    /\ pc = "loop"
    /\ Len(fields) < MaxFields
    /\ \E f \in FieldsNamed(Keys[Len(fields) + 1]) :
          /\ fields' = Append(fields, f)
          /\ SetLocals(FieldStep(config, input_data, Locals, f))
    /\ UNCHANGED <<config, input_data, raise_exc, entry, pc, outcome, decode, instVars,
                   metaVars>>

\* the loop reads a field whose type is still a ForwardRef: ConfigError
LoopForwardRef ==
    /\ pc = "loop"
    /\ Len(fields) < MaxFields
    /\ fields' = Append(fields, ForwardRefField(Keys[Len(fields) + 1]))
    /\ status' = Append(status, "unprepared")
    /\ outcome' = ForwardRefResult
    /\ pc' = "done"
    /\ UNCHANGED <<config, input_data, raise_exc, entry, values, errors, names_used,
                   calls, decode, instVars, metaVars>>

\* the table has no further field: the extra policy, then return or raise
Finish ==
    /\ pc = "loop"
    /\ LET st == ExtraStep(config, input_data, Locals)
       IN  /\ SetLocals(st)
           /\ outcome' = PassResult(raise_exc, st.errors)
    /\ pc' = "done"
    /\ UNCHANGED <<config, input_data, raise_exc, entry, fields, decode, instVars,
                   metaVars>>

(***************************************************************************)
(* The other machines' variables while a pass is modelled.                 *)
(***************************************************************************)
InstIdle ==
    /\ iconfig = [extra |-> "ignore", allow_mutation |-> TRUE, validate_assignment |-> FALSE]
    /\ dicts = <<>>
    /\ inst = <<>>
    /\ last = [op |-> "none"]

MetaIdle == build = [pc |-> "idle"]

PassInit(e, p, raises) ==
    /\ config \in Configs
    /\ input_data \in Inputs
    /\ raise_exc \in raises
    /\ entry = e
    /\ pc = p
    /\ fields = <<>>
    /\ values = EmptyDict
    /\ errors = <<>>
    /\ names_used = {}
    /\ status = <<>>
    /\ calls = <<>>
    /\ outcome = Running
    /\ decode = "none"

\* validate_model(model, input_data, raise_exc); __init__ is the call with
\* raise_exc = True (lines 183-184, 353-354)
Init == PassInit("validate_model", "loop", BOOLEAN) /\ InstIdle /\ MetaIdle

Next == LoopField \/ LoopForwardRef \/ Finish

Spec == Init /\ [][Next]_vars


(***************************************************************************)
(* The decoding entry points, lines 251-287.  The decode collaborators     *)
(* load_str_bytes and load_file return an object (a dict or not) or raise. *)
(***************************************************************************)
DecodeErrors == {"ValueError", "TypeError", "UnicodeDecodeError"}

DecodeOutcomes == {"dict", "nondict"} \cup DecodeErrors

\* raise ValidationError([ErrorWrapper(exc, loc='__obj__')]), lines 255 and 273
RaiseWrapped(exc) ==
    /\ errors' = <<ErrorWrapper(exc, "__obj__")>>
    /\ outcome' = [kind |-> "raised", exc |-> "ValidationError", pair |-> FALSE,
                   error |-> "None"]
    /\ pc' = "failed"

\* an exception of a collaborator that leaves the entry point as it is
RaiseRaw(exc) ==
    /\ errors' = <<>>
    /\ outcome' = [kind |-> "raised", exc |-> exc, pair |-> FALSE, error |-> "None"]
    /\ pc' = "failed"

\* parse_obj, lines 252-256: a dict goes to cls(**obj), anything else is wrapped
parse_obj_body(isdict) ==
    IF isdict THEN pc' = "loop" /\ UNCHANGED <<errors, outcome>>
    ELSE RaiseWrapped("TypeError")

ParseObj ==
    /\ pc = "entry"
    /\ entry' = "parse_obj"
    /\ \E isdict \in BOOLEAN : parse_obj_body(isdict)
    /\ UNCHANGED <<config, input_data, raise_exc, fields, values, names_used, status,
                   calls, decode, instVars, metaVars>>

\* parse_raw, lines 268-274: load_str_bytes inside try/except, then parse_obj
ParseRaw ==
    /\ pc = "entry"
    /\ entry' = "parse_raw"
    /\ \E d \in DecodeOutcomes :
          /\ decode' = d
          /\ IF d \in DecodeErrors THEN RaiseWrapped(d)
             ELSE parse_obj_body(d = "dict")
    /\ UNCHANGED <<config, input_data, raise_exc, fields, values, names_used, status,
                   calls, instVars, metaVars>>

\* parse_file, lines 286-287: load_file with no try/except, then parse_obj
ParseFile ==
    /\ pc = "entry"
    /\ entry' = "parse_file"
    /\ \E d \in DecodeOutcomes :
          /\ decode' = d
          /\ IF d \in DecodeErrors THEN RaiseRaw(d)
             ELSE parse_obj_body(d = "dict")
    /\ UNCHANGED <<config, input_data, raise_exc, fields, values, names_used, status,
                   calls, instVars, metaVars>>

\* cls(**obj) validates with raise_exc = True
InitParse == PassInit("none", "entry", {TRUE}) /\ InstIdle /\ MetaIdle

NextParse == ParseObj \/ ParseRaw \/ ParseFile \/ LoopField \/ LoopForwardRef \/ Finish

SpecParse == InitParse /\ [][NextParse]_vars


(***************************************************************************)
(* Properties of a validation pass.  They are stated on the input, the     *)
(* field table and the result, not on the pass's own bookkeeping.          *)
(***************************************************************************)
\* the pass ran to line 512: no ForwardRef stopped it
Completed == pc = "done" /\ outcome.exc # "ConfigError"

\* the caller got a ValidationError, raised or as second component of the pair
ValidationFailed ==
    \/ outcome.kind = "raised" /\ outcome.exc = "ValidationError"
    \/ outcome.kind = "returned" /\ outcome.pair /\ outcome.error = "ValidationError"

\* the input key under which the input holds a value for f, or _missing
FoundKey(f) ==
    IF f.alias \in DOMAIN input_data THEN f.alias
    ELSE IF config.allow_population_by_alias /\ f.name # f.alias
            /\ f.name \in DOMAIN input_data THEN f.name
    ELSE _missing

Absent(f) == FoundKey(f) = _missing

FieldIdx == 1..Len(fields)

\* the input keys matched to no field
Unmatched == (DOMAIN input_data) \ {FoundKey(fields[i]) : i \in FieldIdx}

Count(seq, e) == Cardinality({j \in 1..Len(seq) : seq[j] = e})

\* a set of keys in ascending order
Ascending(S) == SelectSeq(Keys, LAMBDA k : k \in S)

\* what the coercion collaborator answers for a candidate value of f
Coerced(f, v) == FieldValidate(f, v, EmptyDict, f.alias)

RECURSIVE Flatten(_)
Flatten(ss) == IF ss = <<>> THEN <<>> ELSE Head(ss) \o Flatten(Tail(ss))

\* C1: whenever a required field is absent from the input (neither its alias
\* nor, where population by name applies, its name is a key), validation fails
\* and the error list holds exactly one MissingError located at the field's
\* alias (one per such field, should two absent required fields share an alias).
C1_MissingRequired ==
    Completed =>
      \A i \in FieldIdx :
        (fields[i].required /\ Absent(fields[i])) =>
          /\ ValidationFailed
          /\ Count(errors, ErrorWrapper("MissingError", fields[i].alias))
               = Cardinality({j \in FieldIdx : /\ fields[j].alias = fields[i].alias
                                               /\ fields[j].required
                                               /\ Absent(fields[j])})

\* the same, for the fields that neither validate_all nor validate_always
\* sends to the coercion: there the code reports the MissingError
MissingRequiredUnforced ==
    Completed =>
      \A i \in FieldIdx :
        (/\ fields[i].required /\ Absent(fields[i])
         /\ ~config.validate_all /\ ~fields[i].validate_always) =>
          /\ ValidationFailed
          /\ Count(errors, ErrorWrapper("MissingError", fields[i].alias))
               = Cardinality({j \in FieldIdx : /\ fields[j].alias = fields[i].alias
                                               /\ fields[j].required
                                               /\ Absent(fields[j])
                                               /\ ~fields[j].validate_always})

\* the errors the claims ascribe to field f: a MissingError when it is required
\* and absent, else the errors of its coercion when a candidate value exists
ClaimedErrors(f) ==
    IF Absent(f)
    THEN IF f.required THEN <<ErrorWrapper("MissingError", f.alias)>>
         ELSE IF config.validate_all \/ f.validate_always
         THEN Coerced(f, f.default).errs
         ELSE <<>>
    ELSE Coerced(f, input_data[FoundKey(f)]).errs

\* the errors the code ascribes to field f: as ClaimedErrors, but a required
\* absent field under validate_all / validate_always is coerced from its default
ProducedErrors(f) ==
    IF Absent(f)
    THEN IF config.validate_all \/ f.validate_always
         THEN Coerced(f, f.default).errs
         ELSE IF f.required THEN <<ErrorWrapper("MissingError", f.alias)>>
         ELSE <<>>
    ELSE Coerced(f, input_data[FoundKey(f)]).errs

\* one ExtraError per unmatched key, ascending, under "forbid"
ExpectedExtraErrors ==
    IF config.extra = "forbid"
    THEN [j \in 1..Cardinality(Unmatched) |->
            ErrorWrapper("ExtraError", Ascending(Unmatched)[j])]
    ELSE <<>>

\* C2: a pass never stops at the first failure: every field that is missing
\* and required, or whose coercion returns an error, contributes its errors;
\* the aggregate lists them in field-table order, then the extra-key errors
\* in ascending key order.
C2_AggregatesAll ==
    Completed =>
      errors = Flatten([i \in FieldIdx |-> ClaimedErrors(fields[i])])
                 \o ExpectedExtraErrors

\* the aggregation and its order as the code has them
AggregateInTableOrder ==
    Completed =>
      errors = Flatten([i \in FieldIdx |-> ProducedErrors(fields[i])])
                 \o ExpectedExtraErrors

ExtraPart == SelectSeq(errors, LAMBDA e : e.exc = "ExtraError")

FieldPart == SelectSeq(errors, LAMBDA e : e.exc # "ExtraError")

\* C3: under "forbid" there is exactly one ExtraError per input key matched to
\* no field, located at that key, in ascending key order, and the values and
\* the errors of the declared fields are those of the same input without the
\* unmatched keys.
C3_ForbidExtras ==
    (Completed /\ config.extra = "forbid") =>
      /\ {ExtraPart[j].loc : j \in 1..Len(ExtraPart)} = Unmatched
      /\ \A j, k \in 1..Len(ExtraPart) :
            j < k => Rank(ExtraPart[j].loc) < Rank(ExtraPart[k].loc)
      /\ LET clean == RunPass(config, Without(input_data, Unmatched), fields)
         IN  values = clean.values /\ FieldPart = clean.errors

\* two unexpected keys next to a field that failed and one that resolved
C3_Witness ==
    /\ Completed /\ config.extra = "forbid"
    /\ Cardinality(Unmatched) >= 2
    /\ FieldPart # <<>>
    /\ DOMAIN values # {}

\* C6 as claimed: validate_model called with raise_exc = False never raises,
\* also when a field's type is an unresolved ForwardRef.
C6_NeverRaises ==
    (pc = "done" /\ ~raise_exc) => (outcome.kind = "returned" /\ outcome.pair)

\* C6 as amended: with raise_exc = False the call never raises a
\* ValidationError; it returns the pair (values, ValidationError or None),
\* unless a field's type is an unresolved ForwardRef: then, and only then, it
\* raises ConfigError.
C6_RaisesOnlyConfigError ==
    (pc = "done" /\ ~raise_exc) =>
      IF \E i \in FieldIdx : fields[i].type_ = "ForwardRef"
      THEN outcome.kind = "raised" /\ outcome.exc = "ConfigError"
      ELSE /\ outcome.kind = "returned" /\ outcome.pair
           /\ (outcome.error = "None") <=> (errors = <<>>)

\* a pass with raise_exc = False that found errors and returned them
C6_Witness ==
    /\ pc = "done" /\ ~raise_exc
    /\ Len(errors) >= 2
    /\ outcome.kind = "returned" /\ outcome.error = "ValidationError"

\* C9: the context handed to a field's coercion holds entries only for fields
\* earlier in the table that this pass resolved (coerced or defaulted), each
\* with its resolved value: never the field itself, a later field, a failed
\* earlier field or a raw input key.
C9_ContextIsEarlierResolved ==
    \A c \in 1..Len(calls) :
      LET call == calls[c]
      IN  /\ call.idx \in FieldIdx /\ fields[call.idx].name = call.field
          /\ \A k \in DOMAIN call.values :
               \E j \in 1..(call.idx - 1) :
                  /\ fields[j].name = k
                  /\ ProducedErrors(fields[j]) = <<>>
                  /\ call.values[k] \in
                       {fields[j].default, Coerced(fields[j], fields[j].default).value}
                         \cup (IF Absent(fields[j]) THEN {}
                               ELSE {Coerced(fields[j], input_data[FoundKey(fields[j])]).value})

\* the second field is coerced with the first field's resolved value as its
\* context, while the input holds a key no field matched and extra is "allow"
C9_Witness ==
    /\ Len(calls) = 2 /\ calls[2].idx = 2
    /\ DOMAIN calls[2].values = {fields[1].name}
    /\ config.extra = "allow" /\ Unmatched # {}

\* C10: after a successful pass every declared field name is a key of the
\* returned mapping and holds the value its coercion returned or a copy of its
\* default; the "allow" step never writes a raw input value under a declared
\* field's name.
C10_FieldValuesValidated ==
    (Completed /\ errors = <<>>) =>
      \A i \in FieldIdx :
        /\ fields[i].name \in DOMAIN values
        /\ values[fields[i].name] \in
             {fields[i].default, Coerced(fields[i], fields[i].default).value}
               \cup (IF Absent(fields[i]) THEN {}
                     ELSE {Coerced(fields[i], input_data[FoundKey(fields[i])]).value})

\* the same without the "allow" policy
FieldValuesValidatedUnlessAllow ==
    (Completed /\ errors = <<>> /\ config.extra # "allow") =>
      \A i \in FieldIdx :
        /\ fields[i].name \in DOMAIN values
        /\ values[fields[i].name] \in
             {fields[i].default, Coerced(fields[i], fields[i].default).value}
               \cup (IF Absent(fields[i]) THEN {}
                     ELSE {Coerced(fields[i], input_data[FoundKey(fields[i])]).value})

\* C7: a failure of the decode collaborator in parse_raw or parse_file reaches
\* the caller as a ValidationError holding exactly one ErrorWrapper located at
\* '__obj__', never as the raw exception.
C7_DecodeFailureWrapped ==
    (entry \in {"parse_raw", "parse_file"} /\ decode \in DecodeErrors) =>
      /\ outcome.kind = "raised" /\ outcome.exc = "ValidationError"
      /\ Len(errors) = 1 /\ errors[1].loc = "__obj__"

\* the same for parse_raw alone, where the code has the try/except
ParseRawDecodeFailureWrapped ==
    (entry = "parse_raw" /\ decode \in DecodeErrors) =>
      /\ outcome.kind = "raised" /\ outcome.exc = "ValidationError"
      /\ errors = <<ErrorWrapper(decode, "__obj__")>>


(***************************************************************************)
(* Instances, lines 175-210 and 289-323.  An instance owns one __values__  *)
(* dict; dicts live on a heap and are told apart by identity, so that two  *)
(* instances sharing one dict would show.  The instances' model declares   *)
(* the fields "a" and "b"; "c" is no field.                                *)
(***************************************************************************)
IFieldNames == {"a", "b"}

\* __fields__ of the instances' model
IFields ==
    [n \in IFieldNames |->
       [name |-> n, alias |-> n, required |-> TRUE, validate_always |-> FALSE,
        type_ |-> "int", default |-> "None"]]

IConfigs == [extra : Extra, allow_mutation : BOOLEAN, validate_assignment : BOOLEAN]

\* the mapping of the first instance, as a validation pass returned it
InitialValues == [n \in IFieldNames |-> "GOOD"]

\* dict(exclude={name}), lines 212-223; the values are scalars, which
\* _get_value (lines 357-369) returns as they are
DictExclude(d, name) == [k \in (DOMAIN d) \ {name} |-> d[k]]

\* instance m's __values__
ValuesOf(m) == dicts[inst[m]]

\* a __setattr__ that does not look at allow_mutation
setattr_NoMutationCheck(cfg, d, name, value) ==
    IF cfg.extra # "allow" /\ name \notin IFieldNames
    THEN [exc |-> "ValueError", values |-> d]
    ELSE IF cfg.validate_assignment
    THEN IF name \notin IFieldNames THEN [exc |-> "KeyError", values |-> d]
         ELSE LET r == FieldValidate(IFields[name], value, DictExclude(d, name), name)
              IN  IF r.kind # "none" THEN [exc |-> "ValidationError", values |-> d]
                  ELSE [exc |-> "none", values |-> Put(d, name, r.value)]
    ELSE [exc |-> "none", values |-> Put(d, name, value)]

\* __setattr__, lines 192-204, on the dict d: the exception raised, if any, and
\* the dict afterwards.  self.fields[name] raises KeyError for a name that is
\* no field (reachable under extra = allow with validate_assignment).
setattr_body(cfg, d, name, value) ==
    IF cfg.extra # "allow" /\ name \notin IFieldNames
    THEN [exc |-> "ValueError", values |-> d]
    ELSE IF ~cfg.allow_mutation
    THEN [exc |-> "TypeError", values |-> d]
    ELSE IF cfg.validate_assignment
    THEN IF name \notin IFieldNames THEN [exc |-> "KeyError", values |-> d]
         ELSE LET r == FieldValidate(IFields[name], value, DictExclude(d, name), name)
              IN  IF r.kind # "none" THEN [exc |-> "ValidationError", values |-> d]
                  ELSE [exc |-> "none", values |-> Put(d, name, r.value)]
    ELSE [exc |-> "none", values |-> Put(d, name, value)]

\* a mapping handed around inside copy: an existing dict object, or a new one
Existing(id) == [shared |-> TRUE, id |-> id, map |-> EmptyDict]
Fresh(map) == [shared |-> FALSE, id |-> 0, map |-> map]
Content(ds, v) == IF v.shared THEN ds[v.id] ELSE v.map

\* a construct that keeps the dict it is handed as the instance's __values__
construct_Shared(ds, v) ==
    IF v.shared THEN [dicts |-> ds, id |-> v.id]
    ELSE [dicts |-> Append(ds, v.map), id |-> Len(ds) + 1]

\* construct(**values), lines 289-297: the keyword arguments arrive as a new
\* dict, which becomes the new instance's __values__
construct(ds, v) == [dicts |-> Append(ds, Content(ds, v)), id |-> Len(ds) + 1]

\* an optional argument: None is <<>>, a given value x is <<x>>
None == <<>>
Given(x) == <<x>>

\* lines 312-320: the mapping copy starts from
copy_values(ds, self, include, exclude, update) ==
    IF include = None /\ exclude = None /\ update = None
    THEN Existing(self)
    ELSE LET ex == IF exclude = None THEN {} ELSE exclude[1]
             kept == {k \in DOMAIN ds[self] :
                         k \notin ex /\ (include = None \/ include[1] = {} \/ k \in include[1])}
             upd == IF update = None THEN EmptyDict ELSE update[1]
         IN  Fresh([k \in kept \cup DOMAIN upd |->
                      IF k \in DOMAIN upd THEN upd[k] ELSE ds[self][k]])

\* lines 321-322: deepcopy(v) is a new dict with equal (scalar) values
copy_deep(ds, v, deep) == IF deep THEN Fresh(Content(ds, v)) ELSE v

\* the arguments copy is called with
IncludeArgs == {None, Given({"a"})}
ExcludeArgs == {None, Given({"b"})}
UpdateArgs == {None, Given([b |-> "bad"])}

\* m.name = value
SetAttr ==
    /\ \E m \in 1..Len(inst), name \in KeySet, value \in RawValues :
          LET r == setattr_body(iconfig, ValuesOf(m), name, value)
          IN  /\ dicts' = [dicts EXCEPT ![inst[m]] = r.values]
              /\ last' = [op |-> "set", m |-> m, name |-> name, value |-> value,
                          exc |-> r.exc, plain |-> FALSE, new |-> 0]
    /\ UNCHANGED <<iconfig, inst, passVars, metaVars>>

\* m.copy(include=, exclude=, update=, deep=)
Copy ==
    /\ Len(inst) < MaxInst
    /\ \E m \in 1..Len(inst), include \in IncludeArgs, exclude \in ExcludeArgs,
          update \in UpdateArgs, deep \in BOOLEAN :
          LET v == copy_deep(dicts, copy_values(dicts, inst[m], include, exclude, update), deep)
              c == construct(dicts, v)
          IN  /\ dicts' = c.dicts
              /\ inst' = Append(inst, c.id)
              /\ last' = [op |-> "copy", m |-> m, name |-> "None", value |-> "None",
                          exc |-> "none",
                          plain |-> (include = None /\ exclude = None /\ update = None),
                          new |-> Len(inst) + 1]
    /\ UNCHANGED <<iconfig, passVars, metaVars>>

PassIdle ==
    /\ config = [validate_all |-> FALSE, extra |-> "ignore", allow_population_by_alias |-> FALSE]
    /\ input_data = EmptyDict
    /\ raise_exc = TRUE
    /\ entry = "none"
    /\ pc = "done"
    /\ fields = <<>>
    /\ values = EmptyDict
    /\ errors = <<>>
    /\ names_used = {}
    /\ status = <<>>
    /\ calls = <<>>
    /\ outcome = Running
    /\ decode = "none"

\* one instance exists, created by a successful validation
InitInst ==
    /\ iconfig \in IConfigs
    /\ dicts = <<InitialValues>>
    /\ inst = <<1>>
    /\ last = [op |-> "none", m |-> 0, name |-> "None", value |-> "None",
               exc |-> "none", plain |-> FALSE, new |-> 0]
    /\ PassIdle /\ MetaIdle

NextInst == SetAttr \/ Copy

SpecInst == InitInst /\ [][NextInst]_vars

\* what C4 says of one step that is a set: m.name = value
C4_SetStep ==
    (last'.op = "set") =>
      LET m == last'.m
          name == last'.name
          known == name \in IFieldNames \/ iconfig.extra = "allow"
          rejected == /\ iconfig.validate_assignment /\ name \in IFieldNames
                      /\ FieldValidate(IFields[name], last'.value,
                                       DictExclude(ValuesOf(m), name), name).kind # "none"
      IN  /\ inst' = inst
          /\ (dicts'[inst[m]] # dicts[inst[m]]) =>
                (known /\ iconfig.allow_mutation /\ ~rejected)
          /\ (~known \/ ~iconfig.allow_mutation \/ rejected) =>
                (last'.exc # "none" /\ dicts' = dicts)
          /\ (last'.exc # "none") => (dicts' = dicts)

\* C4: __setattr__ changes the instance's mapping only when the name is a
\* declared field or extra is 'allow', allow_mutation is true and, under
\* validate_assignment, the field's coercion returned no error; a set that
\* fails (unknown field, mutation disabled, assignment-validation error)
\* raises and leaves every stored mapping as it was; with allow_mutation
\* false the mapping never changes.
C4_GuardedSet ==
    /\ [][C4_SetStep]_vars
    /\ [](~iconfig.allow_mutation => ValuesOf(1) = InitialValues)

\* a set refused by assignment validation, on an instance changed before
C4_Witness ==
    /\ last.op = "set" /\ last.exc = "ValidationError"
    /\ ValuesOf(last.m) # InitialValues

\* what C5 says of one step: a copy without arguments, or a set
C5_CopyStep ==
    /\ (last'.op = "copy" /\ last'.plain /\ Len(inst') > Len(inst)) =>
          /\ dicts'[inst'[last'.new]] = dicts[inst[last'.m]]
          /\ \A m \in 1..Len(inst) : inst'[m] = inst[m] /\ dicts'[inst'[m]] = dicts[inst[m]]
    /\ (last'.op = "set") =>
          \A m \in 1..Len(inst) : m # last'.m => dicts'[inst'[m]] = dicts[inst[m]]

\* C5: copy() without arguments (deep or not) returns a new instance whose
\* dict() equals the original's, and a set on one instance never changes
\* the stored mapping of another.
C5_CopyIndependent == [][C5_CopyStep]_vars

\* a successful set on a plain copy, after which copy and original differ
C5_Witness ==
    /\ Len(inst) = 2
    /\ last.op = "set" /\ last.exc = "none" /\ last.m = 2
    /\ ValuesOf(2) # ValuesOf(1)
    /\ DOMAIN ValuesOf(2) = DOMAIN ValuesOf(1)


(***************************************************************************)
(* Class creation, lines 102-169.  Python first executes the class body,   *)
(* which fills __annotations__ and the namespace in statement order, then  *)
(* calls MetaModel.__new__(name, bases, namespace).  __fields__ is a dict: *)
(* it keeps insertion order, and assigning to a key it holds replaces the  *)
(* value where the key stands.                                             *)
(***************************************************************************)
\* a dict whose keys are unique, as the sequence of its items
RECURSIVE HasKey(_, _)
HasKey(d, k) == IF d = <<>> THEN FALSE ELSE Head(d).name = k \/ HasKey(Tail(d), k)

\* an assignment that drops the old item and appends the new one
DictSet_MoveToEnd(d, item) ==
    SelectSeq(d, LAMBDA x : x.name # item.name) \o <<item>>

\* d[item.name] = item
DictSet(d, item) ==
    IF HasKey(d, item.name)
    THEN [i \in 1..Len(d) |-> IF d[i].name = item.name THEN item ELSE d[i]]
    ELSE Append(d, item)

\* d.update(other), line 109
RECURSIVE DictUpdate(_, _)
DictUpdate(d, other) ==
    IF other = <<>> THEN d ELSE DictUpdate(DictSet(d, Head(other)), Tail(other))

\* the forms of a class-body statement about the name x:
\*   "ann"      x: T                annotation only
\*   "annval"   x: T = v            annotation and value
\*   "classvar" x: ClassVar = v     class-level constant
\*   "func"     def x(self): ...    a value of a TYPE_BLACKLIST type
\*   "private"  _x: T = v           a name starting with an underscore
Forms == {"ann", "annval", "classvar", "func", "private"}

Statements == [name : KeySet, form : Forms]

\* a field of a table, with the declaration it comes from: group "base" (and
\* which base, in the order the bases are merged), "ann" or "val"
FieldFrom(n, group, k) == [name |-> n, group |-> group, k |-> k]

\* the field tables a base class can have: one field per name, in any order
RECURSIVE Injective(_)
Injective(q) ==
    IF q = <<>> THEN TRUE
    ELSE (\A i \in 2..Len(q) : q[i] # q[1]) /\ Injective(Tail(q))

BaseTables ==
    {q \in UNION {[1..n -> KeySet] : n \in 0..Len(Keys)} : Injective(q)}

\* the statement's entry in __annotations__, if it makes one
AnnotationOf(st) ==
    IF st.form = "func" THEN <<>>
    ELSE <<[name |-> st.name, private |-> st.form = "private",
            classvar |-> st.form = "classvar"]>>

\* the statement's entry in the namespace, if it makes one
NamespaceOf(st) ==
    IF st.form = "ann" THEN <<>>
    ELSE <<[name |-> st.name, private |-> st.form = "private",
            blacklisted |-> st.form = "func"]>>

\* one iteration of the loop over the annotations, lines 132-143
AnnStep(b, a) ==
    IF a.classvar
    THEN [b EXCEPT !.class_vars = b.class_vars \cup {a.name}]
    ELSE IF ~a.private /\ ~HasKey(b.namespace, a.name)
    THEN [b EXCEPT !.fields = DictSet(b.fields, FieldFrom(a.name, "ann", 0))]
    ELSE b

\* one iteration of the loop over the namespace, lines 145-154
NsStep(b, v) ==
    IF ~v.private /\ ~v.blacklisted /\ v.name \notin b.class_vars
    THEN [b EXCEPT !.fields = DictSet(b.fields, FieldFrom(v.name, "val", 0))]
    ELSE b

\* the loop over the annotations, lines 132-143
RECURSIVE RunAnnotations(_, _)
RunAnnotations(b, anns) ==
    IF anns = <<>> THEN b ELSE RunAnnotations(AnnStep(b, Head(anns)), Tail(anns))

\* the loop over the namespace, lines 145-154
RECURSIVE RunNamespace(_, _)
RunNamespace(b, ns) ==
    IF ns = <<>> THEN b ELSE RunNamespace(NsStep(b, Head(ns)), Tail(ns))

\* the class statement is class C(B1, B2).  A base without fields stands for
\* BaseModel itself or a class that is no model, which line 108 skips.
BaseNames == <<"B1", "B2">>

\* the class body executes one more statement
Declare ==
    /\ build.pc = "body"
    /\ Len(build.body) < MaxDecl
    /\ \E st \in Statements :
          /\ \A i \in 1..Len(build.body) : build.body[i].name # st.name
          /\ build' = [build EXCEPT !.body = Append(build.body, st),
                                    !.annotations = build.annotations \o AnnotationOf(st),
                                    !.namespace = build.namespace \o NamespaceOf(st)]
    /\ UNCHANGED <<passVars, instVars>>

\* the body is over: MetaModel.__new__ is called, lines 104-106
CallNew ==
    /\ build.pc = "body"
    /\ build' = [build EXCEPT !.pc = "bases"]
    /\ UNCHANGED <<passVars, instVars>>

\* lines 107-111: the next base of reversed(bases); its fields are merged
MergeBase ==
    /\ build.pc = "bases"
    /\ Len(build.bases) < Len(BaseNames)
    /\ \E t \in BaseTables :
          LET k == Len(build.bases) + 1
              own == [i \in 1..Len(t) |-> FieldFrom(t[i], "base", k)]
          IN  build' = [build EXCEPT !.bases = <<t>> \o build.bases,
                                     !.fields = DictUpdate(build.fields, own)]
    /\ UNCHANGED <<passVars, instVars>>

\* lines 126-143: every base is merged; the annotation-only fields
AnnLoop ==
    /\ build.pc = "bases"
    /\ Len(build.bases) = Len(BaseNames)
    /\ build' = [RunAnnotations(build, build.annotations) EXCEPT !.pc = "ns"]
    /\ UNCHANGED <<passVars, instVars>>

\* lines 145-169: the valued fields, and the class is made
NsLoop ==
    /\ build.pc = "ns"
    /\ build' = [RunNamespace(build, build.namespace) EXCEPT !.pc = "done"]
    /\ UNCHANGED <<passVars, instVars>>

InitMeta ==
    /\ build = [pc |-> "body", body |-> <<>>, annotations |-> <<>>, namespace |-> <<>>,
                bases |-> <<>>, fields |-> <<>>, class_vars |-> {}]
    /\ PassIdle /\ InstIdle

NextMeta == Declare \/ CallNew \/ MergeBase \/ AnnLoop \/ NsLoop

SpecMeta == InitMeta /\ [][NextMeta]_vars

(***************************************************************************)
(* The field table, stated on the class statement: its bases and its body. *)
(***************************************************************************)
\* the names of the statements of one form, in statement order
Declared(form) ==
    LET sel == SelectSeq(build.body, LAMBDA st : st.form = form)
    IN  [i \in 1..Len(sel) |-> sel[i].name]

\* every declaration of a field, in the order of the claim: the bases' fields,
\* last base first, then the annotation-only fields, then the valued fields
Occurrences ==
    LET nb == Len(build.bases)
        ofBase(k) == [i \in 1..Len(build.bases[nb + 1 - k]) |->
                        FieldFrom(build.bases[nb + 1 - k][i], "base", k)]
        anns == Declared("ann")
        vals == Declared("annval")
    IN  Flatten([k \in 1..nb |-> ofBase(k)])
          \o [i \in 1..Len(anns) |-> FieldFrom(anns[i], "ann", 0)]
          \o [i \in 1..Len(vals) |-> FieldFrom(vals[i], "val", 0)]

FirstAt(n) ==
    CHOOSE p \in 1..Len(Occurrences) :
       /\ Occurrences[p].name = n
       /\ \A q \in 1..(p - 1) : Occurrences[q].name # n

LastAt(n) ==
    CHOOSE p \in 1..Len(Occurrences) :
       /\ Occurrences[p].name = n
       /\ \A q \in (p + 1)..Len(Occurrences) : Occurrences[q].name # n

\* C8: the field table of a built class holds exactly one entry per field
\* name; its order is inherited fields first (bases in reverse declaration
\* order), then the annotation-only fields in annotation order, then the
\* valued fields in declaration order; a name declared again in a later group
\* replaces the earlier entry where that entry stands.
C8_FieldTableOrder ==
    (build.pc = "done") =>
      LET T == build.fields
      IN  /\ \A i, j \in 1..Len(T) : i # j => T[i].name # T[j].name
          /\ {T[i].name : i \in 1..Len(T)}
               = {Occurrences[p].name : p \in 1..Len(Occurrences)}
          /\ \A i, j \in 1..Len(T) : i < j => FirstAt(T[i].name) < FirstAt(T[j].name)
          /\ \A i \in 1..Len(T) : T[i] = Occurrences[LastAt(T[i].name)]

\* a class with two bases that share a field, which the class redeclares with
\* a value, next to an annotation-only field of its own
C8_Witness ==
    /\ build.pc = "done"
    /\ Len(build.bases) = 2
    /\ \E n \in KeySet :
          /\ \E i \in 1..Len(build.bases[1]) : build.bases[1][i] = n
          /\ \E i \in 1..Len(build.bases[2]) : build.bases[2][i] = n
          /\ \E i \in 1..Len(build.body) : build.body[i] = [name |-> n, form |-> "annval"]
          /\ build.fields[1].name # n
          /\ build.fields[Len(build.fields)].name # n
    /\ \E i \in 1..Len(build.body) : build.body[i].form = "ann"

====
